---- MODULE Spec2Model ----
(***************************************************************************)
(* The adaptive leveling and progress-tracking logic of the GRE Geometry   *)
(* quiz applications (src/main.py, src/app2.py, src/app.py): the grader,   *)
(* the session accumulator, the level evaluator and the file-backed        *)
(* progress store.                                                         *)
(*                                                                         *)
(* Text is a sequence of one-character strings, so that str.lower() and    *)
(* str.replace() are computed character by character.                      *)
(* A Python float that is a quotient of small integers is the exact        *)
(* rational in lowest terms, [num, den]: for every count up to 40 the      *)
(* double c / t * 100 compares with 0, 60, 85 and 100, and with every      *)
(* other such double, exactly as the rational does.                        *)
(***************************************************************************)
EXTENDS Integers, Sequences, FiniteSets, TLC

VARIABLES
    variant,        \* the application the session runs: main.py, app2.py, app.py
    inp,            \* the arguments of the pure-function calls (SpecEval)
    out,            \* what the calls returned, None before the call
    ss,             \* st.session_state of the one interactive session
    student_name,   \* the value of the name text input
    topic,          \* the value of the topic selectbox
    radio,          \* the answer radio kept by the page: None, or [key, value]
    screen,         \* the buttons the last script run rendered
    files,          \* student_results/: file name -> content
    clock,          \* what datetime.now() returns next
    log,            \* history variables: the number of start_quiz calls and
                    \* of end_quiz calls, the level last passed to
                    \* generate_questions, the topic of the call that
                    \* returned the questions, the attempts completed
    student_history,\* what get_student_history returned in the last run
    memory,         \* the memory service: the user_id of every add and search
    store_up,       \* whether student_results/ can be opened for writing
    savers,         \* SpecStore: each session's place in save_student_result
    saved           \* SpecStore: the results whose save has returned

vars == <<variant, inp, out, ss, student_name, topic, radio, screen, files,
          clock, log, student_history, memory, store_up, savers, saved>>
evalVars == <<inp, out>>
pageVars == <<variant, ss, student_name, topic, radio, screen, log,
              student_history, memory, store_up>>
storeVars == <<savers, saved>>

None == [none |-> TRUE]

\* ------------------------------------------------------------- bounds

\* Every list of outcomes up to this length is given to analyze_results.
MaxLen == 5
\* The lists [True]*c + [False]*(t - c) are given to it up to this length t.
MaxTotal == 20
\* The Question Source returns batches of up to this many questions.
MaxBatch == 2
\* Start Quiz is handled at most this many times in a session.
MaxAttempts == 2
\* No event is delivered once the results list is this long.
MaxResults == 4
\* save_student_result is called at most this many times in SpecStore.
MaxSaves == 3

\* --------------------------------------------------------------- text

LowerChar(ch) ==
    CASE ch = "A" -> "a"
      [] ch = "B" -> "b"
      [] ch = "C" -> "c"
      [] OTHER -> ch

\* str.lower()
lower(text) == [i \in DOMAIN text |-> LowerChar(text[i])]

\* str.replace(old, new) for one-character old and new
replace(text, old, new) ==
    [i \in DOMAIN text |-> IF text[i] = old THEN new ELSE text[i]]

Range(seq) == {seq[i] : i \in DOMAIN seq}

\* ----------------------------------------------------------- numbers

RECURSIVE GCD(_, _)
GCD(a, b) == IF b = 0 THEN a ELSE GCD(b, a % b)

\* The float n / d, d > 0.
Ratio(n, d) == LET g == GCD(n, d) IN [num |-> n \div g, den |-> d \div g]

\* float < int
Less(x, k) == x.num < k * x.den

ZeroDivisionError == [raised |-> "ZeroDivisionError"]

\* ------------------------------------------------------ level evaluator

\* The mutant of sum: it counts the incorrect outcomes.
RECURSIVE sum_of_false(_)
sum_of_false(results) ==
    IF results = <<>> THEN 0
    ELSE (IF Head(results) THEN 0 ELSE 1) + sum_of_false(Tail(results))

\* sum(results) over booleans: True counts 1, False counts 0.
RECURSIVE sum(_)
sum(results) ==
    IF results = <<>> THEN 0
    ELSE (IF Head(results) THEN 1 ELSE 0) + sum(Tail(results))

\* The mutant of accuracy_of: the division with no guard on an empty list.
accuracy_unguarded(correct_count, total_count) ==
    IF total_count = 0 THEN ZeroDivisionError
    ELSE Ratio(correct_count * 100, total_count)

\* accuracy = (correct_count / total_count * 100) if total_count > 0 else 0
accuracy_of(correct_count, total_count) ==
    IF total_count > 0 THEN Ratio(correct_count * 100, total_count)
    ELSE Ratio(0, 1)

\* float <= int
LessEq(x, k) == x.num <= k * x.den

\* The mutant of tier_of: the first threshold is inclusive (accuracy <= 60).
tier_of_inclusive(accuracy) ==
    IF LessEq(accuracy, 60)
    THEN [level |-> "Beginner",
          reasoning |-> "Needs more practice with fundamental concepts"]
    ELSE IF Less(accuracy, 85)
    THEN [level |-> "Intermediate",
          reasoning |-> "Good understanding but room for improvement"]
    ELSE [level |-> "Advanced",
          reasoning |-> "Excellent mastery of the topic"]

\* The if / elif / else cascade of analyze_results.
tier_of(accuracy) ==
    IF Less(accuracy, 60)
    THEN [level |-> "Beginner",
          reasoning |-> "Needs more practice with fundamental concepts"]
    ELSE IF Less(accuracy, 85)
    THEN [level |-> "Intermediate",
          reasoning |-> "Good understanding but room for improvement"]
    ELSE [level |-> "Advanced",
          reasoning |-> "Excellent mastery of the topic"]

\* analyze_results(results, topic); an exception raised by the division
\* leaves the function.
analyze_results(results, of_topic) ==
    LET correct_count == sum(results)
        total_count == Len(results)
        accuracy == accuracy_of(correct_count, total_count)
    IN  IF accuracy = ZeroDivisionError THEN ZeroDivisionError
        ELSE [topic |-> of_topic,
              correct_count |-> correct_count,
              total_count |-> total_count,
              accuracy |-> accuracy,
              level |-> tier_of(accuracy).level,
              reasoning |-> tier_of(accuracy).reasoning]

\* ---------------------------------------------------------------- grader

\* The mutant of evaluate_answer: the comparison ignores case.
evaluate_answer_ignoring_case(question, user_answer) ==
    lower(user_answer) = lower(question.correct_answer)

\* evaluate_answer(question, user_answer)
evaluate_answer(question, user_answer) ==
    user_answer = question.correct_answer

\* --------------------------------------------------------- progress store

\* Student names: the first two differ in case and in a space against an
\* underscore, the third in its letters.
Students == {<<"A", " ", "b">>, <<"a", "_", "b">>, <<"c">>}

\* The names typed into the one session of Spec.
SessionStudents == {<<"A", " ", "b">>, <<"c">>}

\* f"student_results/{student_name.lower().replace(' ', '_')}_results.json"
filename(name) ==
    <<"student_results/">> \o replace(lower(name), " ", "_") \o <<"_results.json">>

FileNames == {filename(n) : n \in Students}

\* A file's content: Absent (os.path.exists is False), [array |-> the JSON
\* array], or Partial (opened for writing and not yet written in full).
Absent == [absent |-> TRUE]
Partial == [partial |-> TRUE]
JSONDecodeError == [raised |-> "JSONDecodeError"]

\* datetime.isoformat(): the string of the timestamp
isoformat(timestamp) == [iso |-> timestamp]

\* The StudentQuizResult that end_quiz builds.
StudentQuizResult(name, timestamp, analysis) ==
    [student_name |-> name,
     timestamp |-> timestamp,
     topic |-> analysis.topic,
     accuracy |-> analysis.accuracy,
     level |-> analysis.level,
     correct_count |-> analysis.correct_count,
     total_count |-> analysis.total_count]

\* The new_result dict of save_student_result.
new_result(result) ==
    [student_name |-> result.student_name,
     timestamp |-> isoformat(result.timestamp),
     topic |-> result.topic,
     accuracy |-> result.accuracy,
     level |-> result.level,
     correct_count |-> result.correct_count,
     total_count |-> result.total_count]

\* What a call that may raise gives back: Return(value) or the exception.
Return(v) == [value |-> v]

\* json.load(f) of a file that exists
json_load(content) ==
    IF content = Partial THEN JSONDecodeError ELSE Return(content.array)

\* The mutant of load_existing: the file is never read.
load_nothing(fs, name) == Return(<<>>)

\* save_student_result, its reading half: existing_results
load_existing(fs, name) ==
    IF fs[filename(name)] # Absent THEN json_load(fs[filename(name)])
    ELSE Return(<<>>)

\* save_student_result, its writing half: the append and the json.dump
dump_appended(fs, existing_results, result) ==
    [fs EXCEPT ![filename(result.student_name)] =
        [array |-> Append(existing_results, new_result(result))]]

\* save_student_result(result) with no other access to the file in between:
\* the file it reads is whole, a writer having left it so.
save_student_result(fs, result) ==
    dump_appended(fs, load_existing(fs, result.student_name).value, result)

FileNotFoundError == [raised |-> "FileNotFoundError"]

\* The mutant of get_student_history: the file is opened without the test
\* that it exists.
get_student_history_unguarded(fs, name) ==
    IF fs[filename(name)] = Absent THEN FileNotFoundError
    ELSE json_load(fs[filename(name)])

\* get_student_history(student_name)
get_student_history(fs, name) ==
    IF fs[filename(name)] # Absent THEN json_load(fs[filename(name)])
    ELSE Return(<<>>)

\* ------------------------------------------------ the session of main.py

\* The options of the topic selectbox; the first is selected at first.
TOPICS == {"Lines and Angles", "Circles", "Triangles"}

NoTopic == "None"
EmptyDict == [t \in {} |-> None]
Raised == [raised |-> "Exception"]

\* Truthiness of st.session_state.questions: None and [] are false.
Truthy(questions) == questions # None /\ questions.list # <<>>

\* The questions the Question Source returns in a session: two options, the
\* second correct, so that the option the radio shows first is incorrect and
\* the user's selection decides the outcome.
SessionQuestions ==
    {[question |-> <<"q">>, options |-> <<(<<"a">>), (<<"b">>)>>,
      correct_answer |-> <<"b">>]}

\* What generate_questions returns: a list of questions, or it raises.
Batches == UNION {[1..k -> SessionQuestions] : k \in 0..MaxBatch}
Generated == {[list |-> b] : b \in Batches} \cup {Raised}

\* initialize_session_state() on a fresh session
initialize_session_state ==
    [quiz_active |-> FALSE,
     current_question |-> 0,
     questions |-> None,
     results |-> <<>>,
     progress_data |-> EmptyDict,
     current_topic |-> NoTopic,
     submitted_answer |-> FALSE]

\* dict[key] = value
DictSet(dict, key, value) ==
    [k \in DOMAIN dict \cup {key} |-> IF k = key THEN value ELSE dict[k]]

\* The mutant of start_quiz: the results of the last attempt are kept.
start_quiz_keeping_results(s, t, generated) ==
    LET s1 == [s EXCEPT !.quiz_active = TRUE,
                        !.current_question = 0,
                        !.current_topic = t,
                        !.submitted_answer = FALSE]
    IN  IF generated = Raised THEN s1 ELSE [s1 EXCEPT !.questions = generated]

\* start_quiz(topic, num_questions); generated is what generate_questions
\* does: when it raises, the assignments before the call stand.
start_quiz(s, t, generated) ==
    LET s1 == [s EXCEPT !.quiz_active = TRUE,
                        !.current_question = 0,
                        !.results = <<>>,
                        !.current_topic = t,
                        !.submitted_answer = FALSE]
    IN  IF generated = Raised THEN s1 ELSE [s1 EXCEPT !.questions = generated]

\* submit_answer()
submit_answer(s) == [s EXCEPT !.submitted_answer = TRUE]

\* The mutant of next_question: the index advances by two.
next_question_skipping(s) ==
    [s EXCEPT !.current_question = @ + 2, !.submitted_answer = FALSE]

\* next_question()
next_question(s) ==
    [s EXCEPT !.current_question = @ + 1, !.submitted_answer = FALSE]

\* The mutant of end_quiz: the quiz is left active.
end_quiz_left_active(s, fs, name, now) ==
    LET analysis == analyze_results(s.results, s.current_topic)
        student_result == StudentQuizResult(name, now, analysis)
    IN  [ss |-> [s EXCEPT !.progress_data = DictSet(@, s.current_topic, analysis)],
         files |-> save_student_result(fs, student_result)]

\* end_quiz(student_name); now is datetime.now()
end_quiz(s, fs, name, now) ==
    LET analysis == analyze_results(s.results, s.current_topic)
        student_result == StudentQuizResult(name, now, analysis)
    IN  [ss |-> [s EXCEPT !.progress_data = DictSet(@, s.current_topic, analysis),
                          !.quiz_active = FALSE],
         files |-> save_student_result(fs, student_result)]

\* end_quiz(student_name) when open(filename, 'w') raises in
\* save_student_result: the assignment to progress_data has been made, the
\* file is as it was, and quiz_active = False is not reached.
end_quiz_store_down(s, fs, name, now) ==
    LET analysis == analyze_results(s.results, s.current_topic)
    IN  [ss |-> [s EXCEPT !.progress_data = DictSet(@, s.current_topic, analysis)],
         files |-> fs]

Clicked(ev, label) == ev.kind = "click" /\ ev.value = label

NoLevel == "None"

\* The mutant of current_level: the default is not the lowest tier.
current_level_default_intermediate(progress_data, t) ==
    IF t \in DOMAIN progress_data THEN progress_data[t].level ELSE "Intermediate"

\* current_level = progress_data.get(topic, {}).get('level', 'Beginner'),
\* the level passed to generate_questions.
current_level(progress_data, t) ==
    IF t \in DOMAIN progress_data THEN progress_data[t].level ELSE "Beginner"

\* The mutant of start_button_rendered: the button is always on the page.
start_button_always(s) == TRUE

\* if not st.session_state.quiz_active: ... st.button("Start Quiz")
start_button_rendered(s) == ~ s.quiz_active

\* A completed attempt, as the history variable log.done keeps it.
Done(name, t, analysis) == [student |-> name, topic |-> t, level |-> analysis.level]

\* One run of the script main() of main.py, from the top, for the event ev
\* that caused it; generated is what generate_questions does if it is called.
\* A button returns True in the run its click caused, if the run renders it.
\* s1, s2, s3 are st.session_state after the sidebar, after the Submit
\* Answer button and after the append. history is what the sidebar's
\* get_student_history returns; if it raises, the run ends there.
main(ev, generated) ==
    LET name1 == IF ev.kind = "enter_name" THEN ev.value ELSE student_name
        topic1 == IF ev.kind = "select_topic" THEN ev.value ELSE topic
        history == get_student_history(files, name1)
        start_shown == start_button_rendered(ss)
        start_clicked == start_shown /\ Clicked(ev, "Start Quiz")
        raised == start_clicked /\ generated = Raised
    IN
    IF "raised" \in DOMAIN history
    THEN /\ student_name' = name1
         /\ topic' = topic1
         /\ student_history' = history
         /\ screen' = {}
         /\ UNCHANGED <<ss, radio, files, clock, log, memory>>
    ELSE
    \E s1 \in {IF start_clicked THEN start_quiz(ss, topic1, generated) ELSE ss} :
    LET quiz_shown == ~ raised /\ s1.quiz_active /\ Truthy(s1.questions)
        question == s1.questions.list[s1.current_question + 1]
        kept == radio # None /\ radio.key = s1.current_question
        submit_shown == quiz_shown /\ ~ s1.submitted_answer
    IN
    \E answer \in {IF ~ quiz_shown THEN <<>>
                   ELSE IF kept /\ ev.kind = "select_answer" THEN ev.value
                   ELSE IF kept THEN radio.value
                   ELSE question.options[1]} :
    \E s2 \in {IF submit_shown /\ Clicked(ev, "Submit Answer")
               THEN submit_answer(s1) ELSE s1} :
    LET feedback == quiz_shown /\ s2.submitted_answer IN
    \E s3 \in {IF feedback
               THEN [s2 EXCEPT !.results = Append(@, evaluate_answer(question, answer))]
               ELSE s2} :
    LET more == s3.current_question < Len(s3.questions.list) - 1
        next_shown == feedback /\ more
        finish_shown == feedback /\ ~ more
        next_clicked == next_shown /\ Clicked(ev, "Next Question")
        finish_clicked == finish_shown /\ Clicked(ev, "Finish Quiz")
        stored == finish_clicked /\ store_up
    IN
    \E ended \in {IF stored THEN end_quiz(s3, files, name1, clock)
                  ELSE IF finish_clicked
                  THEN end_quiz_store_down(s3, files, name1, clock)
                  ELSE [ss |-> s3, files |-> files]} :
        /\ ss' = IF next_clicked THEN next_question(s3) ELSE ended.ss
        /\ student_name' = name1
        /\ topic' = topic1
        /\ radio' = IF quiz_shown
                    THEN [key |-> s1.current_question, value |-> answer]
                    ELSE None
        /\ screen' = {b \in {"Start Quiz"} : start_shown}
                     \cup {b \in {"Submit Answer"} : submit_shown}
                     \cup {b \in {"Next Question"} : next_shown}
                     \cup {b \in {"Finish Quiz"} : finish_shown}
        /\ files' = ended.files
        /\ clock' = IF finish_clicked THEN clock + 1 ELSE clock
        /\ log' = [started |-> IF start_clicked THEN log.started + 1 ELSE log.started,
                   finished |-> IF stored THEN log.finished + 1
                                ELSE log.finished,
                   level |-> IF start_clicked
                             THEN current_level(ss.progress_data, topic1)
                             ELSE log.level,
                   topic |-> IF start_clicked /\ ~ raised THEN topic1
                             ELSE log.topic,
                   done |-> IF stored
                            THEN Append(log.done,
                                     Done(name1, s3.current_topic,
                                          ended.ss.progress_data[s3.current_topic]))
                            ELSE log.done]
        /\ student_history' = history
        /\ UNCHANGED memory

\* ------------------------------------- the session of app2.py and app.py

\* The Start Quiz branch of main() in app2.py and app.py, up to st.rerun();
\* when generate_questions raises, current_questions is not assigned.
app_start(s, generated) ==
    LET s1 == [s EXCEPT !.quiz_active = TRUE,
                        !.current_question = 0,
                        !.results = <<>>]
    IN  IF generated = Raised THEN s1 ELSE [s1 EXCEPT !.questions = generated]

\* The Submit Answer branch up to the test that ends the quiz.
app_submit(s, question, answer) ==
    [s EXCEPT !.results = Append(@, evaluate_answer(question, answer)),
              !.current_question = @ + 1]

\* The end of the quiz in the Submit Answer branch. app2.py keeps
\* progress_data in st.session_state; app.py keeps it in the quiz_app object
\* that every run constructs anew, so that none of it outlives the run.
app_finish(s, t) ==
    LET analysis == analyze_results(s.results, t)
    IN  [s EXCEPT !.progress_data =
                      IF variant = "app2.py" THEN DictSet(@, t, analysis) ELSE @,
                  !.quiz_active = FALSE]

\* f"user_{datetime.now().strftime('%Y%m%d%H%M%S')}"
strftime(timestamp) == [user |-> timestamp]

\* st.session_state of app2.py after the first run: the keys of main.py's
\* that app2.py uses, and the user_id assigned once, at the first run.
app2_session_state ==
    [quiz_active |-> FALSE,
     current_question |-> 0,
     questions |-> None,
     results |-> <<>>,
     progress_data |-> EmptyDict,
     current_topic |-> NoTopic,
     submitted_answer |-> FALSE,
     user_id |-> strftime(0)]

\* The user_id that keys the memory calls of a run: app2.py reads
\* st.session_state.user_id, app.py the user_id of the quiz_app object that
\* the run constructed at the time now.
user_id_of(s, now) == IF variant = "app2.py" THEN s.user_id ELSE strftime(now)

\* The text that update_memory adds.
memory_text(name, t, level) ==
    IF variant = "app2.py"
    THEN [text |-> "Updated expertise level for", topic |-> t, level |-> level]
    ELSE [text |-> "'s expertise level for", student_name |-> name,
          topic |-> t, level |-> level]

\* No call of the memory service yet.
NoMemory == [added |-> {}, searched |-> {}]

\* Whether a run on state s renders the question, its radio and Submit Answer.
app_question_shown(s) ==
    /\ s.quiz_active
    /\ s.questions # None
    /\ s.current_question < Len(s.questions.list)

\* One run of the script main() of app2.py or app.py for the event ev,
\* with the runs that st.rerun() starts after it: the page is the one the
\* last of them renders. ss.questions is st.session_state.current_questions,
\* None while the key is not set (reading it then raises and ends the run).
app2_main(ev, generated) ==
    LET name1 == IF ev.kind = "enter_name" THEN ev.value ELSE student_name
        topic1 == IF ev.kind = "select_topic" THEN ev.value ELSE topic
        start_clicked == start_button_rendered(ss) /\ Clicked(ev, "Start Quiz")
        raised == start_clicked /\ generated = Raised
        shown == ~ start_clicked /\ app_question_shown(ss)
        question == ss.questions.list[ss.current_question + 1]
        submit_clicked == shown /\ Clicked(ev, "Submit Answer")
    IN
    \E answer \in {IF ~ shown THEN <<>>
                   ELSE IF radio # None /\ ev.kind = "select_answer" THEN ev.value
                   ELSE IF radio # None THEN radio.value
                   ELSE question.options[1]} :
    \E s1 \in {IF start_clicked THEN app_start(ss, generated)
               ELSE IF submit_clicked THEN app_submit(ss, question, answer)
               ELSE ss} :
    LET finished == submit_clicked /\ ~ (s1.current_question < Len(s1.questions.list))
        rerun == (start_clicked /\ ~ raised) \/ submit_clicked
    IN
    \E s2 \in {IF finished THEN app_finish(s1, topic1) ELSE s1} :
    \E now \in {clock} \cup {t \in {clock + 1} : variant = "app.py" /\ finished} :
    LET analysis == analyze_results(s1.results, topic1)
        crashed == raised \/ (s2.quiz_active /\ s2.questions = None)
        searching == ~ crashed /\ s2.progress_data # EmptyDict
    IN
        /\ ss' = s2
        /\ student_name' = name1
        /\ topic' = topic1
        /\ radio' = IF raised \/ ~ app_question_shown(s2) THEN None
                    ELSE IF rerun
                    THEN [key |-> s2.current_question,
                          value |-> s2.questions.list[s2.current_question + 1].options[1]]
                    ELSE [key |-> s2.current_question, value |-> answer]
        /\ screen' = IF raised THEN {"Start Quiz"}
                     ELSE {b \in {"Start Quiz"} : ~ s2.quiz_active}
                          \cup {b \in {"Submit Answer"} : app_question_shown(s2)}
        /\ log' = [started |-> IF start_clicked THEN log.started + 1 ELSE log.started,
                   finished |-> IF finished THEN log.finished + 1 ELSE log.finished,
                   level |-> IF start_clicked
                             THEN current_level(ss.progress_data, topic1)
                             ELSE log.level,
                   topic |-> IF start_clicked /\ ~ raised THEN topic1
                             ELSE log.topic,
                   done |-> IF finished
                            THEN Append(log.done, Done(name1, topic1, analysis))
                            ELSE log.done]
        /\ clock' = now
        /\ memory' =
               [added |-> memory.added \cup
                    {[user_id |-> user_id_of(s2, now),
                      message |-> memory_text(name1, topic1, analysis.level)] :
                         x \in {x \in {TRUE} : finished}},
                searched |-> memory.searched \cup
                    {user_id_of(s2, now) : x \in {x \in {TRUE} : searching}}]
        /\ UNCHANGED <<files, student_history>>

\* The page after the first run in which a name is entered, and an empty
\* student_results directory.
PageInit ==
    /\ ss = IF variant = "app2.py" THEN app2_session_state
            ELSE initialize_session_state
    /\ topic = "Lines and Angles"
    /\ radio = None
    /\ screen = {"Start Quiz"}
    /\ log = [started |-> 0, finished |-> 0, level |-> NoLevel,
              topic |-> NoTopic, done |-> <<>>]
    /\ memory = NoMemory
    /\ store_up = TRUE

\* What the sidebar of main.py read in the first run; the other applications
\* keep no history.
HistoryInit ==
    student_history = IF variant = "main.py"
                      THEN get_student_history(files, student_name)
                      ELSE None

Variants == {"main.py", "app2.py", "app.py"}

DiskInit ==
    /\ files = [f \in FileNames |-> Absent]
    /\ clock = 0

\* The sessions that save concurrently; none is inside save_student_result.
Sessions == {"s1", "s2"}
Idle == [pc |-> "idle"]

SaversIdle ==
    /\ savers = [p \in Sessions |-> Idle]
    /\ saved = {}

\* A user event and the script run it causes.
Run(ev, generated) ==
    /\ Len(ss.results) < MaxResults
    /\ IF variant = "main.py" THEN main(ev, generated) ELSE app2_main(ev, generated)
    /\ UNCHANGED <<variant, store_up, evalVars, storeVars>>

ClickStartQuiz ==
    /\ "Start Quiz" \in screen
    /\ log.started < MaxAttempts
    /\ \E generated \in Generated :
           Run([kind |-> "click", value |-> "Start Quiz"], generated)

ClickSubmitAnswer ==
    /\ "Submit Answer" \in screen
    /\ Run([kind |-> "click", value |-> "Submit Answer"], Raised)

ClickNextQuestion ==
    /\ "Next Question" \in screen
    /\ Run([kind |-> "click", value |-> "Next Question"], Raised)

ClickFinishQuiz ==
    /\ "Finish Quiz" \in screen
    /\ Run([kind |-> "click", value |-> "Finish Quiz"], Raised)

\* The user picks another option of the question on the page.
SelectAnswer ==
    /\ radio # None
    /\ \E o \in Range(ss.questions.list[radio.key + 1].options) \ {radio.value} :
           Run([kind |-> "select_answer", value |-> o], Raised)

SelectTopic ==
    \E t \in TOPICS \ {topic} : Run([kind |-> "select_topic", value |-> t], Raised)

\* app2.py has no name input.
EnterName ==
    /\ variant # "app2.py"
    /\ \E n \in SessionStudents \ {student_name} :
           Run([kind |-> "enter_name", value |-> n], Raised)

Next ==
    \/ ClickStartQuiz
    \/ ClickSubmitAnswer
    \/ ClickNextQuestion
    \/ ClickFinishQuiz
    \/ SelectAnswer
    \/ SelectTopic
    \/ EnterName

EvalIdle ==
    /\ inp = [results |-> <<>>, topic |-> "Circles",
              question |-> CHOOSE q \in SessionQuestions : TRUE,
              user_answer |-> <<"a">>]
    /\ out = [analysis |-> None, is_correct |-> None]

Init ==
    /\ variant \in Variants
    /\ PageInit
    /\ student_name \in SessionStudents
    /\ DiskInit
    /\ HistoryInit
    /\ SaversIdle
    /\ EvalIdle

Spec == Init /\ [][Next]_vars

\* --------------------------- a session whose store is at times unavailable

\* student_results/ becomes unavailable for writing, or available again.
Outage ==
    /\ variant = "main.py"
    /\ store_up' = ~ store_up
    /\ UNCHANGED <<variant, ss, student_name, topic, radio, screen, log,
                   student_history, memory, files, clock, evalVars, storeVars>>

OutageInit ==
    /\ variant = "main.py"
    /\ PageInit
    /\ student_name \in SessionStudents
    /\ DiskInit
    /\ HistoryInit
    /\ SaversIdle
    /\ EvalIdle

OutageNext == Next \/ Outage

SpecOutage == OutageInit /\ [][OutageNext]_vars

\* ------------------------------- a session after an earlier session

\* student_results/ as an earlier session of main.py left it: one record,
\* of student c, for an attempt on one topic graded Advanced at time 0.
EarlierDisks ==
    {save_student_result([f \in FileNames |-> Absent],
         StudentQuizResult(<<"c">>, 0, analyze_results(<<TRUE, TRUE>>, t))) :
             t \in TOPICS}

\* A new session of main.py (a fresh st.session_state) on that directory.
ResumeInit ==
    /\ variant = "main.py"
    /\ PageInit
    /\ student_name \in SessionStudents
    /\ files \in EarlierDisks
    /\ clock = 1
    /\ HistoryInit
    /\ SaversIdle
    /\ EvalIdle

SpecResume == ResumeInit /\ [][Next]_vars

\* ------------------------------------- concurrent save_student_result

\* The results the sessions save: any student, one analysis.
SavedAnalysis == analyze_results(<<TRUE>>, "Circles")

OSError == [raised |-> "OSError"]

\* The mutant of raise_to_caller: the exception is caught and dropped.
swallow_error(saver, error) == [pc |-> "idle"]

\* An exception leaves save_student_result and end_quiz, which have no try:
\* the call is over, the script run ends with the exception reported, the
\* result is not stored and nothing calls save_student_result for it again.
raise_to_caller(saver, error) ==
    [pc |-> "idle", raised |-> error, result |-> saver.result]

\* A session's end_quiz builds its result and enters save_student_result.
SaveCall(p) ==
    /\ savers[p].pc = "idle"
    /\ clock < MaxSaves
    /\ \E name \in Students :
           savers' = [savers EXCEPT ![p] =
               [pc |-> "read",
                result |-> StudentQuizResult(name, clock, SavedAnalysis)]]
    /\ clock' = clock + 1
    /\ UNCHANGED <<files, saved>>

\* existing_results = [] ; if os.path.exists(filename): json.load(f).
\* A file another session has opened for writing does not parse: the call
\* raises and its result is not stored.
SaveRead(p) ==
    /\ savers[p].pc = "read"
    /\ LET existing == load_existing(files, savers[p].result.student_name)
       IN  savers' = [savers EXCEPT ![p] =
               IF existing = JSONDecodeError
               THEN raise_to_caller(savers[p], existing)
               ELSE [pc |-> "open",
                     result |-> savers[p].result,
                     existing_results |-> existing.value]]
    /\ UNCHANGED <<files, clock, saved>>

\* with open(filename, 'w') as f: the file is truncated.
SaveOpen(p) ==
    /\ savers[p].pc = "open"
    /\ files' = [files EXCEPT ![filename(savers[p].result.student_name)] = Partial]
    /\ savers' = [savers EXCEPT ![p].pc = "dump"]
    /\ UNCHANGED <<clock, saved>>

\* existing_results.append(new_result); json.dump(existing_results, f, indent=2)
\* and the file is closed; the call returns.
SaveDump(p) ==
    /\ savers[p].pc = "dump"
    /\ files' = dump_appended(files, savers[p].existing_results, savers[p].result)
    /\ savers' = [savers EXCEPT ![p] = Idle]
    /\ saved' = saved \cup {savers[p].result}
    /\ UNCHANGED clock

\* The store is unavailable: open(filename, 'r') of the file that exists, or
\* open(filename, 'w'), raises OSError; the file is as it was.
SaveFail(p) ==
    /\ \/ savers[p].pc = "read" /\ files[filename(savers[p].result.student_name)] # Absent
       \/ savers[p].pc = "open"
    /\ savers' = [savers EXCEPT ![p] = raise_to_caller(savers[p], OSError)]
    /\ UNCHANGED <<files, clock, saved>>

Call == \E p \in Sessions : SaveCall(p) /\ UNCHANGED <<evalVars, pageVars>>
Read == \E p \in Sessions : SaveRead(p) /\ UNCHANGED <<evalVars, pageVars>>
Open == \E p \in Sessions : SaveOpen(p) /\ UNCHANGED <<evalVars, pageVars>>
Dump == \E p \in Sessions : SaveDump(p) /\ UNCHANGED <<evalVars, pageVars>>
Fail == \E p \in Sessions : SaveFail(p) /\ UNCHANGED <<evalVars, pageVars>>

\* A script run of the session of student_name reads the history in the
\* sidebar while the other sessions save.
History ==
    /\ student_history' = get_student_history(files, student_name)
    /\ UNCHANGED <<variant, ss, student_name, topic, radio, screen, log, memory,
                   store_up, files, clock, evalVars, storeVars>>

StoreNext == Call \/ Read \/ Open \/ Dump \/ Fail \/ History

StoreInit ==
    /\ variant = "main.py"
    /\ PageInit
    /\ student_name = <<"c">>
    /\ DiskInit
    /\ HistoryInit
    /\ SaversIdle
    /\ EvalIdle

SpecStore == StoreInit /\ [][StoreNext]_vars

\* ------------------------------------------- the pure functions, applied

\* [True] * c + [False] * (t - c)
Block(c, t) == [i \in 1..t |-> i <= c]

BoolSeqs(n) == UNION {[1..k -> BOOLEAN] : k \in 0..n}

OutcomeLists ==
    BoolSeqs(MaxLen) \cup {Block(c, t) : c \in 0..MaxTotal, t \in 0..MaxTotal}

\* Option texts: two that differ only in case, one that differs in a letter.
Texts == {<<"a">>, <<"A">>, <<"b">>}

\* A question as generate_questions formats it; the answer is one of the
\* options and the options are distinct (the Question Source's contract).
EvalQuestions ==
    {[question |-> <<"q">>, options |-> <<o1, o2>>, correct_answer |-> c] :
        o1 \in Texts, o2 \in Texts, c \in Texts}

WellFormed(q) ==
    /\ q.correct_answer \in Range(q.options)
    /\ \A i, j \in DOMAIN q.options : q.options[i] = q.options[j] => i = j

EvalInit ==
    /\ inp \in [results : OutcomeLists,
                topic : {"Circles"},
                question : {q \in EvalQuestions : WellFormed(q)},
                user_answer : Texts]
    /\ out = [analysis |-> None, is_correct |-> None]
    /\ variant = "main.py"
    /\ PageInit
    /\ student_name = <<"c">>
    /\ DiskInit
    /\ HistoryInit
    /\ SaversIdle

CallAnalyze ==
    /\ out.analysis = None
    /\ out' = [out EXCEPT !.analysis = analyze_results(inp.results, inp.topic)]
    /\ UNCHANGED <<inp, pageVars, files, clock, storeVars>>

CallEvaluate ==
    /\ out.is_correct = None
    /\ out' = [out EXCEPT
                 !.is_correct = [value |-> evaluate_answer(inp.question, inp.user_answer)]]
    /\ UNCHANGED <<inp, pageVars, files, clock, storeVars>>

EvalNext == CallAnalyze \/ CallEvaluate

SpecEval == EvalInit /\ [][EvalNext]_vars

\* ---------------------------------------------------------- properties

\* The number of correct outcomes of a list, counted by position.
Correct(results) == Cardinality({i \in DOMAIN results : results[i]})

\* C1: analyze_results puts every outcome list in exactly one tier:
\* Beginner iff accuracy < 60, Intermediate iff 60 <= accuracy < 85,
\* Advanced iff accuracy >= 85, each with its fixed reasoning text; the
\* accuracy is 100 * correct / total, and 0 for the empty list.
C1_TierPartition ==
    out.analysis # None =>
        LET c == Correct(inp.results)
            t == Len(inp.results)
            below60 == t = 0 \/ 100 * c < 60 * t
            below85 == t = 0 \/ 100 * c < 85 * t
            a == out.analysis
        IN  /\ a # ZeroDivisionError
            /\ a.level \in {"Beginner", "Intermediate", "Advanced"}
            /\ (a.level = "Beginner") <=> below60
            /\ (a.level = "Intermediate") <=> (~ below60 /\ below85)
            /\ (a.level = "Advanced") <=> ~ below85
            /\ a.level = "Beginner" =>
                   a.reasoning = "Needs more practice with fundamental concepts"
            /\ a.level = "Intermediate" =>
                   a.reasoning = "Good understanding but room for improvement"
            /\ a.level = "Advanced" =>
                   a.reasoning = "Excellent mastery of the topic"

\* C1 witness: a list at the first boundary, 3 correct of 5, an accuracy of
\* exactly 60, has been graded Intermediate.
C1_AtSixty ==
    /\ out.analysis # None
    /\ Len(inp.results) = 5
    /\ Correct(inp.results) = 3
    /\ out.analysis.level = "Intermediate"

\* C2: the accuracy analyze_results computes lies in [0, 100] and is 0
\* exactly when the list is empty or holds no correct outcome.
C2_AccuracyRange ==
    out.analysis # None =>
        /\ out.analysis # ZeroDivisionError
        /\ out.analysis.accuracy.den > 0
        /\ ~ Less(out.analysis.accuracy, 0)
        /\ LessEq(out.analysis.accuracy, 100)
        /\ (out.analysis.accuracy.num = 0) <=>
               (inp.results = <<>> \/ \A i \in DOMAIN inp.results : ~ inp.results[i])

\* C2 witness: a list of correct outcomes only, whose accuracy is 100.
C2_AllCorrect ==
    /\ out.analysis # None
    /\ Len(inp.results) = 3
    /\ \A i \in DOMAIN inp.results : inp.results[i]
    /\ out.analysis.accuracy = Ratio(100, 1)

\* C3: analyze_results on the empty list does not fail: it returns
\* correct_count 0, total_count 0, accuracy 0 and level Beginner.
C3_EmptyQuiz ==
    (out.analysis # None /\ inp.results = <<>>) =>
        /\ out.analysis # ZeroDivisionError
        /\ out.analysis.correct_count = 0
        /\ out.analysis.total_count = 0
        /\ out.analysis.accuracy = Ratio(0, 1)
        /\ out.analysis.level = "Beginner"

\* C3 witness: analyze_results has returned for the empty list.
C3_EmptyAnalysed == out.analysis # None /\ inp.results = <<>>

\* C4: evaluate_answer returns true exactly when the submitted option is the
\* question's correct answer; an option that is not among the question's
\* options is graded false, not an error; and the grading step changes
\* neither the session state nor the stored files.
C4_Grader ==
    /\ [](out.is_correct # None =>
            /\ out.is_correct.value \in BOOLEAN
            /\ out.is_correct.value <=> (inp.user_answer = inp.question.correct_answer)
            /\ inp.user_answer \notin Range(inp.question.options) =>
                   out.is_correct.value = FALSE)
    /\ [][out'.is_correct # out.is_correct =>
            UNCHANGED <<ss, student_name, topic, radio, screen, files, clock>>]_vars

\* C4 witness: an option that is not one of the question's options, and
\* differs from the correct one only in case, has been graded.
C4_ForeignOptionGraded ==
    /\ out.is_correct # None
    /\ inp.user_answer \notin Range(inp.question.options)
    /\ lower(inp.user_answer) = lower(inp.question.correct_answer)
    /\ out.is_correct.value = FALSE

\* The questions answered so far in the attempt in flight.
Answered ==
    IF variant = "main.py"
    THEN ss.current_question + (IF ss.submitted_answer THEN 1 ELSE 0)
    ELSE ss.current_question

\* C5: exactly one outcome is appended per answered question: during an
\* attempt the results list is as long as the number of questions answered,
\* and when the attempt has completed the list given to analyze_results is
\* as long as the batch (total_count = N).
C5_OneOutcomePerQuestion ==
    /\ (ss.quiz_active /\ Truthy(ss.questions)) => Len(ss.results) = Answered
    /\ (~ ss.quiz_active /\ log.finished > 0) =>
           /\ Len(ss.results) = Len(ss.questions.list)
           /\ variant = "main.py" =>
                  ss.progress_data[ss.current_topic].total_count
                      = Len(ss.questions.list)

\* C6: the run that handles Start Quiz leaves the results list empty and
\* the question index 0, whatever the last attempt left.
C6_StartResets ==
    [][log'.started = log.started + 1 =>
          /\ ss'.results = <<>>
          /\ ss'.current_question = 0
          /\ ss'.quiz_active]_vars

\* C6 witness: a second attempt has just started, after a first one that
\* had left its outcomes in the results list.
C6_SecondStart ==
    /\ log.started = 2
    /\ log.finished = 1
    /\ ss.quiz_active
    /\ Truthy(ss.questions)
    /\ ss.results = <<>>
    /\ ss.current_question = 0

\* The number of records in all the files.
RECURSIVE Records(_, _)
Records(fs, names) ==
    IF names = {} THEN 0
    ELSE LET f == CHOOSE n \in names : TRUE
         IN  (IF fs[f] = Absent \/ fs[f] = Partial THEN 0 ELSE Len(fs[f].array))
             + Records(fs, names \ {f})

\* C7: in main.py every attempt run to completion has produced exactly one
\* record: the files hold one record per attempt started, less the one in
\* flight, and only the run that ends the quiz adds a record, exactly one.
C7_OneRecordPerAttempt ==
    /\ [](variant = "main.py" =>
            Records(files, FileNames)
                = log.started - (IF ss.quiz_active THEN 1 ELSE 0))
    /\ [][variant = "main.py" =>
            Records(files', FileNames) =
                Records(files, FileNames)
                + (IF ss.quiz_active /\ ~ ss'.quiz_active THEN 1 ELSE 0)]_vars

\* C7 witness: two attempts have been completed, and the Finish Quiz button
\* of the second is still on the page.
C7_TwoCompleted ==
    /\ log.finished = 2
    /\ ~ ss.quiz_active
    /\ "Finish Quiz" \in screen
    /\ Records(files, FileNames) = 2

\* C8: after save_student_result(r), get_student_history for r's student is
\* the history before with r's record appended: one longer, the last
\* element r, the earlier elements unchanged and in order.
C8_AppendThenHistory ==
    [][(variant = "main.py" /\ log'.finished = log.finished + 1) =>
          LET a == ss'.progress_data[ss.current_topic]
              r == [student_name |-> student_name,
                    timestamp |-> isoformat(clock),
                    topic |-> ss.current_topic,
                    accuracy |-> a.accuracy,
                    level |-> a.level,
                    correct_count |-> a.correct_count,
                    total_count |-> a.total_count]
              before == get_student_history(files, student_name).value
              after == get_student_history(files', student_name).value
          IN  /\ Len(after) = Len(before) + 1
              /\ after[Len(after)] = r
              /\ SubSeq(after, 1, Len(before)) = before]_vars

\* C8 witness: a result has been saved for a student whose history already
\* held a record.
C8_SecondRecord ==
    \E n \in Students :
        /\ files[filename(n)] # Absent
        /\ Len(get_student_history(files, n).value) = 2

\* No session is inside save_student_result.
Quiescent == \A p \in Sessions : savers[p].pc = "idle"

\* C9: when sessions save concurrently for the same student no record is
\* lost: once the calls have returned, the student's history holds the
\* record of every result whose save returned.
C9_NoLostRecord ==
    Quiescent =>
        \A r \in saved :
            new_result(r) \in Range(get_student_history(files, r.student_name).value)

\* C10: each student identifier has its own record set: the history
\* returned for a student holds only records whose student_name is that
\* student.
C10_OwnRecordSet ==
    Quiescent =>
        \A n \in Students :
            \A rec \in Range(get_student_history(files, n).value) :
                rec.student_name = n

\* C11: get_student_history for a student with no stored records returns
\* the empty sequence and not an error: while the student named on the page
\* has no file, what the sidebar read is the empty list.
C11_NoRecordsNoError ==
    (variant = "main.py" /\ files[filename(student_name)] = Absent) =>
        student_history = Return(<<>>)

\* C11 witness: after an attempt was saved for one student, the name of a
\* student with no file was entered and the history read for it.
C11_NewStudentRead ==
    /\ variant = "main.py"
    /\ log.finished >= 1
    /\ files[filename(student_name)] = Absent
    /\ student_history = Return(<<>>)

\* The step is a script run that handled a Start Quiz click.
Started == log'.started = log.started + 1

\* The attempts of log.done for the topic t, and those of them by student.
DoneFor(t) == {i \in DOMAIN log.done : log.done[i].topic = t}
DoneBy(student, t) == {i \in DoneFor(t) : log.done[i].student = student}

\* The greatest element of a non-empty set of numbers.
Last(S) == CHOOSE i \in S : \A j \in S : j <= i

C13_NextQuizAtEarnedLevel ==
    [][(Started /\ DoneFor(topic') # {}
          /\ log.done[Last(DoneFor(topic'))].student = student_name') =>
          log'.level = log.done[Last(DoneFor(topic'))].level]_vars

\* C14: the level used for (S, T) depends only on S's own results for T:
\* it is the level of one of S's attempts for T, or the default, whatever
\* was completed for other topics or under other student names.
C14_OwnResultsOnly ==
    [][Started =>
          log'.level \in {"Beginner"} \cup
              {log.done[i].level : i \in DoneBy(student_name', topic')}]_vars

\* The level of the last record of a history with topic t, Beginner if
\* it has none.
LastLevel(history, t) ==
    LET I == {i \in DOMAIN history : history[i].topic = t}
    IN  IF I = {} THEN "Beginner" ELSE history[Last(I)].level

\* C15: the level chosen when a quiz starts is the level of the last record
\* with that topic in the student's stored history, Beginner if there is
\* none; stated for the first start of a session, where every record of the
\* history was appended by an earlier session.
C15_LevelFromStoredHistory ==
    [][(variant = "main.py" /\ Started /\ log.finished = 0) =>
          log'.level =
              LastLevel(get_student_history(files, student_name').value, topic')]_vars

\* C16: every stored history is in the order of its timestamps: along each
\* file's array the timestamps never decrease, also when the end_quiz steps
\* of several sessions interleave.
C16_ChronologicalHistory ==
    \A f \in FileNames :
        "array" \in DOMAIN files[f] =>
            \A i, j \in DOMAIN files[f].array :
                i < j => files[f].array[i].timestamp.iso
                             <= files[f].array[j].timestamp.iso

\* The records of all the files.
Stored == UNION {Range(files[f].array) : f \in {g \in FileNames : "array" \in DOMAIN files[g]}}

\* C17: a save that cannot read or write the store fails to its caller and
\* is not retried: a call that ends without having stored its result ends
\* with the exception reported, and the result of a failed call is never
\* stored afterwards.
C17_FailureReportedNoRetry ==
    /\ [](\A p \in Sessions :
            "raised" \in DOMAIN savers[p] =>
                /\ savers[p].result \notin saved
                /\ new_result(savers[p].result) \notin Stored)
    /\ [][\A p \in Sessions :
            (savers[p].pc # "idle" /\ savers'[p].pc = "idle"
               /\ savers[p].result \notin saved') =>
                /\ "raised" \in DOMAIN savers'[p]
                /\ savers'[p].raised \in {JSONDecodeError, OSError}
                /\ savers'[p].result = savers[p].result]_vars

\* C17 witness: one session's save failed on a store it could not open, and
\* another's on a file it could not parse; both sessions are idle again.
C17_BothFailures ==
    \E p, q \in Sessions :
        /\ "raised" \in DOMAIN savers[p] /\ savers[p].raised = OSError
        /\ "raised" \in DOMAIN savers[q] /\ savers[q].raised = JSONDecodeError

\* C18: the result of an attempt (student, topic, timestamp, correct_count,
\* total_count, accuracy, level, reasoning), written by save_student_result
\* and read back by get_student_history, is equal to the original field for
\* field, the timestamp up to its string form.
C18_RoundTrip ==
    [][(variant = "main.py" /\ log'.finished = log.finished + 1) =>
          LET a == ss'.progress_data[ss.current_topic]
              after == get_student_history(files', student_name).value
              rec == after[Len(after)]
          IN  /\ rec.student_name = student_name
              /\ rec.topic = a.topic
              /\ rec.timestamp = isoformat(clock)
              /\ rec.correct_count = a.correct_count
              /\ rec.total_count = a.total_count
              /\ rec.accuracy = a.accuracy
              /\ rec.level = a.level
              /\ "reasoning" \in DOMAIN rec
              /\ rec.reasoning = a.reasoning]_vars

\* The user identifiers that keyed a call of the memory service.
UserIds == {m.user_id : m \in memory.added} \cup memory.searched

\* C19: all the annotations a session adds to the memory service, and its
\* memory searches, are keyed by one and the same user identifier.
C19_OneUserId == Cardinality(UserIds) <= 1

\* C20: at most one attempt is in flight: while a quiz is active no script
\* run starts a new attempt, and the questions, the results list and the
\* question index of the attempt in flight are not reset: the list only
\* grows at its end and the index never decreases.
C20_OneAttemptInFlight ==
    [][ss.quiz_active =>
          /\ log'.started = log.started
          /\ ss'.questions = ss.questions
          /\ Len(ss'.results) >= Len(ss.results)
          /\ SubSeq(ss'.results, 1, Len(ss.results)) = ss.results
          /\ ss'.current_question >= ss.current_question]_vars

\* C20 witness: a quiz is active with its question on the way, and the page
\* still shows the Start Quiz button of the run that started it, so that a
\* second Start Quiz click can arrive.
C20_StartButtonWhileActive ==
    /\ ss.quiz_active
    /\ Truthy(ss.questions)
    /\ "Start Quiz" \in screen
    /\ log.started < MaxAttempts

\* C21: the result of a completed attempt is recorded under the topic for
\* which the attempt's questions were generated, also when the topic
\* selector was changed during the attempt.
C21_RecordedUnderQuizTopic ==
    [][log'.finished = log.finished + 1 =>
          log'.done[Len(log'.done)].topic = log.topic]_vars

\* C22: the outcome recorded for a question is the grade of the option that
\* was selected when Submit Answer was pressed: a change of the radio
\* selection while the feedback of the question is displayed changes neither
\* the number of correct outcomes of the attempt nor its accuracy.
C22_GradeFixedAtSubmit ==
    [][(/\ ss.quiz_active /\ ss'.quiz_active
        /\ ss.submitted_answer /\ ss'.submitted_answer
        /\ ss'.current_question = ss.current_question
        /\ radio # None /\ radio' # None /\ radio'.value # radio.value) =>
          /\ sum(ss'.results) = sum(ss.results)
          /\ accuracy_of(sum(ss'.results), Len(ss'.results))
                 = accuracy_of(sum(ss.results), Len(ss.results))]_vars

\* C23: an active quiz can always be brought to an end: whenever a quiz is
\* active, the page offers Submit Answer, Next Question or Finish Quiz, also
\* after the Question Source returned an empty batch or raised.
C23_ActiveQuizCanEnd ==
    ss.quiz_active =>
        screen \cap {"Submit Answer", "Next Question", "Finish Quiz"} # {}

\* C24: a get_student_history that runs while a save_student_result for the
\* same student is in progress returns a history and never an error.
C24_ReadDuringSave == "raised" \notin DOMAIN student_history

\* C25: the session's per-topic progress never runs ahead of the store:
\* every entry of progress_data is the analysis of a record that is in the
\* stored histories, also after a save that failed at the end of a quiz.
C25_ProgressBackedByStore ==
    \A t \in DOMAIN ss.progress_data :
        \E rec \in Stored :
            /\ rec.topic = t
            /\ rec.level = ss.progress_data[t].level
            /\ rec.accuracy = ss.progress_data[t].accuracy
            /\ rec.correct_count = ss.progress_data[t].correct_count
            /\ rec.total_count = ss.progress_data[t].total_count

\* C26: whenever the current question is read during an active quiz (the
\* quiz is active and there are questions), the question index is within the
\* batch: 0 <= current_question < number of questions.
C26_IndexWithinBatch ==
    (ss.quiz_active /\ Truthy(ss.questions)) =>
        /\ 0 <= ss.current_question
        /\ ss.current_question < Len(ss.questions.list)

\* C26 witness: the last question of a batch of two is on the page, after a
\* first attempt was completed.
C26_LastQuestionShown ==
    /\ ss.quiz_active
    /\ Truthy(ss.questions)
    /\ Len(ss.questions.list) = 2
    /\ ss.current_question = 1
    /\ log.finished = 1

====
